---------------------------- MODULE Spec2Model ----------------------------
(***************************************************************************)
(* ChopChop: receipt scan -> fridge inventory -> recipe suggestions.       *)
(*                                                                         *)
(* One browser session (App, Fridge, ReceiptUpload, RecipeList) talking to *)
(* the shared inventory table `fridge` and to the model proxy.  Every      *)
(* handler is cut at its awaits: the synchronous part up to an await is    *)
(* one action; the store (or the remote service) answering, together with  *)
(* the continuation that runs on the answer, is the next.                  *)
(*                                                                         *)
(* Times are JavaScript time values (milliseconds).  An ISO-8601 string    *)
(* made by Date.prototype.toISOString carries exactly the millisecond      *)
(* time value, so a timestamp column is modelled by its time value; the    *)
(* one case where toISOString does not return (an invalid time value) is   *)
(* modelled as the RangeError it throws.                                   *)
(***************************************************************************)
EXTENDS Integers, Sequences, FiniteSets, Bags, TLC

(***************************************************************************)
(* Bounds of the model.                                                    *)
(***************************************************************************)
MaxId == 2          \* rows the store ever creates in one run
MaxTicks == 1       \* clock ticks in one run
MaxInFlight == 2    \* Supabase requests in flight at once
MaxEntries == 2     \* entries in one extraction response
MaxLen == 6         \* characters of a recipe response
MaxRequests == 3    \* requests the proxy receives in one run

(***************************************************************************)
(* Optional values: null / undefined / '' is <<>>, a value v is <<v>>.     *)
(***************************************************************************)
Null == <<>>
Some(v) == <<v>>
IsNull(o) == o = <<>>
Val(o) == o[1]

Range(s) == {s[i] : i \in 1..Len(s)}

(***************************************************************************)
(* The clock.  `new Date()` reads it.                                      *)
(***************************************************************************)
MsPerDay == 24 * 60 * 60 * 1000
TickMs == MsPerDay

(***************************************************************************)
(* Input domains.                                                          *)
(***************************************************************************)
\* What the user may have typed: a name or nothing, a day (the value of an
\* <input type="date">, as a day number) or nothing.
NameInputs == {Null, Some("Tofu")}
AddDateInputs == {Null, Some(1)}
EditDateInputs == {Null, Some(0), Some(2)}

VARIABLES
    clock,              \* the current time value (ms)
    store,              \* table public.fridge, in physical order
    nextId,             \* the table's id sequence
    net,                \* Supabase requests in flight
    page,               \* App: 'dashboard' | 'scan'
    items,              \* Fridge: rows loaded from the store
    editingItemId,      \* Fridge: id of the row being edited
    loading,            \* Fridge: initial fetch spinner
    fresh,              \* history: items is the answer of a fetch, and the
                        \* table has not been written since
    alertMsg,           \* the window.alert on screen ('' when none)
    image,              \* ReceiptUpload: a file is selected
    cleanedItems,       \* ReceiptUpload: parsed extraction response
    scanLoading,        \* ReceiptUpload: loading
    scanError,          \* ReceiptUpload: error
    scanPc,             \* ReceiptUpload: where handleScan is suspended
    scanCall,           \* ReceiptUpload: the OCR text of the call to the proxy
                        \* in flight
    fridgeItems,        \* RecipeList: rows loaded from the store (item_name)
    recipeCall,         \* RecipeList: the ingredient list of the call to the
                        \* proxy in flight
    response,           \* RecipeList: the proxy's answer being awaited
    recipes,            \* RecipeList: recipes
    recipeLoading,      \* RecipeList: loading
    recipeError,        \* RecipeList: error
    proxy               \* the proxy: its requests, by number

storeVars == <<store, nextId>>
fridgeVars == <<items, editingItemId, loading>>
scanVars == <<image, cleanedItems, scanLoading, scanError, scanPc, scanCall>>
recipeVars == <<fridgeItems, recipeCall, response, recipes, recipeLoading, recipeError>>
vars == <<clock, store, nextId, net, page, items, editingItemId, loading, fresh,
          alertMsg, image,
          cleanedItems, scanLoading, scanError, scanPc, scanCall, fridgeItems,
          recipeCall, response, recipes,
          recipeLoading, recipeError, proxy>>


(***************************************************************************)
(* The inventory store: table public.fridge behind Supabase.  A row is     *)
(* [id, item_name, added_on, expires_on]; item_name and expires_on are     *)
(* nullable.  The code reaches it only through supabase.from('fridge').    *)
(***************************************************************************)
StoreRow(id, name, added, exp) ==
    [id |-> id, item_name |-> name, added_on |-> added, expires_on |-> exp]

\* .insert(rows): one INSERT statement, the table assigns the ids in order.
InsertRows(tbl, first, rows) ==
    tbl \o [i \in 1..Len(rows) |->
              StoreRow(first + i - 1, rows[i].item_name, rows[i].added_on,
                       rows[i].expires_on)]

\* .delete().eq('id', id) and .delete().in('id', ids)
DeleteRows(tbl, ids) == SelectSeq(tbl, LAMBDA r : r.id \notin ids)

\* A variant that forgets the filter: C10 must tell it from UpdateRows.
UpdateRowsEverywhere(tbl, ids, exp) ==
    [i \in 1..Len(tbl) |-> [tbl[i] EXCEPT !.expires_on = Some(exp)]]

\* .update({ expires_on }).eq('id', id)
UpdateRows(tbl, ids, exp) ==
    [i \in 1..Len(tbl) |->
        IF tbl[i].id \in ids THEN [tbl[i] EXCEPT !.expires_on = Some(exp)]
        ELSE tbl[i]]

\* A variant that orders descending: C9 must tell it from ComesBefore.
ComesAfter(a, b) ==
    /\ ~IsNull(a.expires_on)
    /\ (IsNull(b.expires_on) \/ Val(a.expires_on) > Val(b.expires_on))

\* ORDER BY expires_on ASC: NULLs last, ties in the table's physical order.
ComesBefore(a, b) ==
    /\ ~IsNull(a.expires_on)
    /\ (IsNull(b.expires_on) \/ Val(a.expires_on) < Val(b.expires_on))

RECURSIVE InsertOrdered(_, _)
InsertOrdered(sorted, r) ==
    IF sorted = <<>> THEN <<r>>
    ELSE IF ComesBefore(r, Head(sorted)) THEN <<r>> \o sorted
    ELSE <<Head(sorted)>> \o InsertOrdered(Tail(sorted), r)

RECURSIVE OrderByExpiresOn(_)
OrderByExpiresOn(rows) ==
    IF rows = <<>> THEN <<>>
    ELSE InsertOrdered(OrderByExpiresOn(SubSeq(rows, 1, Len(rows) - 1)),
                       rows[Len(rows)])

\* .select('id, item_name, expires_on').order('expires_on', { ascending: true })
SelectItems(tbl) ==
    LET sorted == OrderByExpiresOn(tbl)
    IN  [i \in 1..Len(sorted) |->
            [id |-> sorted[i].id, item_name |-> sorted[i].item_name,
             expires_on |-> sorted[i].expires_on]]

(***************************************************************************)
(* Requests in flight: what a handler awaits.  A request settles in one    *)
(* step, in which the store executes it (or rejects it, writing nothing)   *)
(* and the awaiting handler resumes with the answer.  live is whether the  *)
(* component that sent the request is still mounted: the state setters of  *)
(* an unmounted component do nothing.                                      *)
(***************************************************************************)
Request(op, owner, ids, rows, exp, mount) ==
    [op |-> op, owner |-> owner, ids |-> ids, rows |-> rows, exp |-> exp,
     mount |-> mount, live |-> TRUE]

SelectRequest(mount) == Request("select", "fridge", {}, <<>>, 0, mount)

\* The select of RecipeList's fetchFridgeItems, sent by its mount effect.
FetchFridgeItems == Request("select", "recipes", {}, <<>>, 0, TRUE)

\* net is the bag of the requests in flight.
InFlight == BagToSet(net)
Send(reqs, r) == reqs (+) SetToBag({r})
Settled(r) == net (-) SetToBag({r})

CanSend == BagCardinality(net) < MaxInFlight

\* The table has room for the rows (the bound of the model).
HasRoom(rows) == nextId + Len(rows) - 1 <= MaxId

\* The table as the session finds it: one row written earlier, by someone
\* else, with no expiry.
InitialStore == <<StoreRow(1, Some("Kale"), 0, Null)>>

\* The user dismisses the alert.
DismissAlert ==
    /\ alertMsg # ""
    /\ alertMsg' = ""
    /\ UNCHANGED <<proxy, fresh, clock, storeVars, net, page, fridgeVars, scanVars, recipeVars>>

Tick ==
    /\ clock < MaxTicks * TickMs
    /\ clock' = clock + TickMs
    /\ UNCHANGED <<proxy, fresh, storeVars, net, page, fridgeVars, alertMsg, scanVars, recipeVars>>

(***************************************************************************)
(* Fridge.jsx.  The buttons exist once the initial fetch has settled; the  *)
(* search box only hides cards and is left empty.  The text and date       *)
(* inputs (newItem, expiryDate, newExpiryForEdit) hold what the user last  *)
(* typed: a handler that reads them takes their content as its input.      *)
(***************************************************************************)
\* window.alert is modal: until it is dismissed the page runs nothing.
Running == alertMsg = ""

FridgeShown == Running /\ page = "dashboard" /\ ~loading

ItemIds == {items[i].id : i \in 1..Len(items)}

\* new Date('yyyy-mm-dd').toISOString(): midnight UTC of the day
DateToTime(day) == day * MsPerDay

\* fetchItems(): sends the select; FetchItemsDone handles its answer.  The
\* fetch of an unmounted Fridge sets nothing, so it is not followed.
FetchItems(rest, mount, live) ==
    net' = IF live THEN Send(rest, SelectRequest(mount)) ELSE rest

FetchItemsDone(r, error) ==
    /\ Running /\ r \in InFlight
    /\ r.op = "select" /\ r.owner = "fridge"
    /\ net' = Settled(r)
    /\ items' = IF error THEN items ELSE SelectItems(store)
    /\ fresh' = IF error THEN fresh ELSE TRUE
    /\ loading' = IF r.mount THEN FALSE ELSE loading
    /\ UNCHANGED <<proxy, clock, storeVars, page, editingItemId, alertMsg, scanVars,
                   recipeVars>>

AddPayload(name, day) ==
    [item_name |-> name, added_on |-> clock,
     expires_on |-> Some(DateToTime(Val(day)))]

\* newItem and expiryDate: '' is Null
HandleAddItem(name, day) ==
    /\ FridgeShown
    /\ IF IsNull(name) \/ IsNull(day)
       THEN /\ alertMsg' = "Fill both fields!"
            /\ UNCHANGED net
       ELSE /\ CanSend
            /\ net' = Send(net, Request("insert", "fridge", {}, <<AddPayload(name, day)>>,
                                        0, FALSE))
            /\ UNCHANGED alertMsg
    /\ UNCHANGED <<proxy, fresh, clock, storeVars, page, fridgeVars, scanVars, recipeVars>>

HandleAddItemDone(r, error) ==
    /\ Running /\ r \in InFlight
    /\ r.op = "insert" /\ r.owner = "fridge"
    /\ IF error
       THEN /\ net' = Settled(r)
            /\ UNCHANGED <<storeVars, fresh>>
       ELSE /\ HasRoom(r.rows)
            /\ store' = InsertRows(store, nextId, r.rows)
            /\ nextId' = nextId + Len(r.rows)
            /\ fresh' = FALSE
            /\ FetchItems(Settled(r), FALSE, r.live)
    /\ UNCHANGED <<proxy, clock, page, fridgeVars, alertMsg, scanVars, recipeVars>>

\* The Delete button of a card that is not being edited.
HandleDeleteItem(itemId) ==
    /\ FridgeShown
    /\ itemId \in ItemIds /\ editingItemId # Some(itemId)
    /\ CanSend
    /\ net' = Send(net, Request("delete", "fridge", {itemId}, <<>>, 0, FALSE))
    /\ UNCHANGED <<proxy, fresh, clock, storeVars, page, fridgeVars, alertMsg, scanVars, recipeVars>>

\* handleDeleteItem and handleClearExpired resume alike.
HandleDeleteDone(r, error) ==
    /\ Running /\ r \in InFlight
    /\ r.op = "delete" /\ r.owner = "fridge"
    /\ IF error
       THEN /\ net' = Settled(r)
            /\ UNCHANGED <<store, fresh>>
       ELSE /\ store' = DeleteRows(store, r.ids)
            /\ fresh' = FALSE
            /\ FetchItems(Settled(r), FALSE, r.live)
    /\ UNCHANGED <<proxy, clock, nextId, page, fridgeVars, alertMsg, scanVars, recipeVars>>

\* A variant that spares the item expiring at this very instant: C5 must
\* tell it from IsExpired.
IsExpiredBefore(it, now) ==
    IF IsNull(it.expires_on) THEN FALSE ELSE Val(it.expires_on) < now

\* if (!it.expires_on) return false; return new Date(it.expires_on) <= now
IsExpired(it, now) ==
    IF IsNull(it.expires_on) THEN FALSE ELSE Val(it.expires_on) <= now

\* A variant that takes the items without an expiry too: C6 must tell it
\* from ExpiredIds.
ExpiredOrUndatedIds(list, now) ==
    LET chosen == SelectSeq(list, LAMBDA it : IsNull(it.expires_on) \/ IsExpired(it, now))
    IN  {chosen[i].id : i \in 1..Len(chosen)}

\* items.filter(...).map((it) => it.id)
ExpiredIds(list, now) ==
    LET expired == SelectSeq(list, LAMBDA it : IsExpired(it, now))
    IN  {expired[i].id : i \in 1..Len(expired)}

HandleClearExpired ==
    /\ FridgeShown
    /\ IF ExpiredIds(items, clock) = {}
       THEN /\ alertMsg' = "No expired items to clear."
            /\ UNCHANGED net
       ELSE /\ CanSend
            /\ net' = Send(net, Request("delete", "fridge", ExpiredIds(items, clock),
                                        <<>>, 0, FALSE))
            /\ UNCHANGED alertMsg
    /\ UNCHANGED <<proxy, fresh, clock, storeVars, page, fridgeVars, scanVars, recipeVars>>

\* The Edit button of a card that is not being edited.
HandleEditClick(itemId) ==
    /\ FridgeShown
    /\ itemId \in ItemIds /\ editingItemId # Some(itemId)
    /\ editingItemId' = Some(itemId)
    /\ UNCHANGED <<proxy, fresh, clock, storeVars, net, page, items, loading, alertMsg, scanVars,
                   recipeVars>>

\* The date input and the Save button exist on the card being edited.
EditShown == FridgeShown /\ ~IsNull(editingItemId) /\ Val(editingItemId) \in ItemIds

\* newExpiryForEdit: '' is Null
HandleSaveEdit(day) ==
    /\ EditShown
    /\ IF IsNull(day)
       THEN /\ alertMsg' = "Please select a new date."
            /\ UNCHANGED net
       ELSE /\ CanSend
            /\ net' = Send(net, Request("update", "fridge", {Val(editingItemId)}, <<>>,
                                        DateToTime(Val(day)), FALSE))
            /\ UNCHANGED alertMsg
    /\ UNCHANGED <<proxy, fresh, clock, storeVars, page, fridgeVars, scanVars, recipeVars>>

HandleSaveEditDone(r, error) ==
    /\ Running /\ r \in InFlight
    /\ r.op = "update" /\ r.owner = "fridge"
    /\ IF error
       THEN /\ net' = Settled(r)
            /\ UNCHANGED <<store, editingItemId, fresh>>
       ELSE /\ store' = UpdateRows(store, r.ids, r.exp)
            /\ fresh' = FALSE
            /\ editingItemId' = IF r.live THEN Null ELSE editingItemId
            /\ FetchItems(Settled(r), FALSE, r.live)
    /\ UNCHANGED <<proxy, clock, nextId, page, items, loading, alertMsg, scanVars, recipeVars>>

(***************************************************************************)
(* JavaScript values, as far as handleScan computes with them.  A value is *)
(* [t, n, s]: its type, its number (t = 'number') and its text (t =        *)
(* 'string'); t = 'nan' is the number NaN.                                 *)
(***************************************************************************)
Undefined == [t |-> "undefined", n |-> 0, s |-> ""]
JsNull == [t |-> "null", n |-> 0, s |-> ""]
NaN == [t |-> "nan", n |-> 0, s |-> ""]
Num(k) == [t |-> "number", n |-> k, s |-> ""]
Str(x) == [t |-> "string", n |-> 0, s |-> x]
Obj == [t |-> "object", n |-> 0, s |-> ""]

\* ToBoolean
Truthy(v) ==
    CASE v.t = "number" -> v.n # 0
      [] v.t = "string" -> v.s # ""
      [] v.t = "object" -> TRUE
      [] OTHER -> FALSE

\* a || b
Or(a, b) == IF Truthy(a) THEN a ELSE b

\* The decimal strings among the texts of the model.
DecimalStrings == ("0" :> 0) @@ ("1" :> 1) @@ ("2" :> 2) @@ ("3" :> 3)

\* ToNumber
ToNumber(v) ==
    CASE v.t = "number" -> v
      [] v.t = "nan" -> NaN
      [] v.t = "null" -> Num(0)
      [] v.t = "string" -> IF v.s = "" THEN Num(0)
                           ELSE IF v.s \in DOMAIN DecimalStrings
                                THEN Num(DecimalStrings[v.s])
                                ELSE NaN
      [] OTHER -> NaN

\* a * k and a + k for a number k
Times(a, k) == IF ToNumber(a).t = "nan" THEN NaN ELSE Num(ToNumber(a).n * k)
Plus(k, a) == IF a.t = "nan" THEN NaN ELSE Num(k + a.n)

(***************************************************************************)
(* JSON values of an extraction response: an array of elements or          *)
(* something else; an element is an object with (maybe) item and           *)
(* perish_in_days, a string, or null.                                      *)
(***************************************************************************)
JsonArray(elems) == [kind |-> "array", elems |-> elems]
JsonObject == [kind |-> "object", elems |-> <<>>]

Entry(item, days) == [kind |-> "object", item |-> item, perish_in_days |-> days]
StringElement == [kind |-> "string", item |-> Null, perish_in_days |-> Undefined]
NullElement == [kind |-> "null", item |-> Null, perish_in_days |-> Undefined]

\* Rendering the preview reads it.item of every element: a null element
\* throws, and with no error boundary React unmounts the whole page.
RenderThrows(v) ==
    v.kind = "array" /\ \E i \in 1..Len(v.elems) : v.elems[i].kind = "null"

\* cleanedItems.length > 0: an object that is no array has no length
PreviewShown ==
    page = "scan" /\ cleanedItems.kind = "array" /\ Len(cleanedItems.elems) > 0

(***************************************************************************)
(* Texts of the model proxy, as sequences of tokens: a json code fence     *)
(* (three backticks and the word json), a bare fence (three backticks),    *)
(* white space, one JSON value, or other words.                            *)
(***************************************************************************)
Token(t, v) == [t |-> t, v |-> v]
FenceJson == Token("fence-json", JsonObject)
Fence == Token("fence", JsonObject)
Space == Token("ws", JsonObject)
Words == Token("words", JsonObject)
Json(v) == Token("json", v)

RECURSIVE TrimLeft(_, _)
TrimLeft(s, spaces) ==
    IF s # <<>> /\ Head(s) \in spaces THEN TrimLeft(Tail(s), spaces) ELSE s

RECURSIVE TrimRight(_, _)
TrimRight(s, spaces) ==
    IF s # <<>> /\ s[Len(s)] \in spaces
    THEN TrimRight(SubSeq(s, 1, Len(s) - 1), spaces) ELSE s

\* String.prototype.trim, on a sequence whose white space is `spaces`
Trim(s, spaces) == TrimRight(TrimLeft(s, spaces), spaces)

\* A variant that removes the json fences only: C14 must tell it from
\* StripFences.
StripJsonFences(text) ==
    Trim(SelectSeq(Trim(text, {Space}), LAMBDA tok : tok.t # "fence-json"), {Space})

\* geminiText.trim().replace(<json fence>, '').replace(<fence>, '').trim()
StripFences(text) ==
    LET trimmed == Trim(text, {Space})
        noJson == SelectSeq(trimmed, LAMBDA tok : tok.t # "fence-json")
        noFence == SelectSeq(noJson, LAMBDA tok : tok.t # "fence")
    IN  Trim(noFence, {Space})

\* JSON.parse: one JSON value, white space around it allowed
JsonParses(text) ==
    LET core == SelectSeq(text, LAMBDA tok : tok.t # "ws")
    IN  Len(core) = 1 /\ core[1].t = "json"

JsonParse(text) == SelectSeq(text, LAMBDA tok : tok.t # "ws")[1].v

(***************************************************************************)
(* ReceiptUpload.jsx, handleScan step 4: the rows to insert.               *)
(***************************************************************************)
\* it.item and it.perish_in_days of an element that is no object: undefined
ItemOf(it) == IF it.kind = "object" THEN it.item ELSE Null
PerishOf(it) == IF it.kind = "object" THEN it.perish_in_days ELSE Undefined

\* A variant that counts hours for days: C1 must tell it from ExpiryTime.
ExpiryTimeInHours(it, now) ==
    Plus(now, Times(Or(PerishOf(it), Num(0)), 60 * 60 * 1000))

\* now.getTime() + (it.perish_in_days || 0) * 24 * 60 * 60 * 1000
ExpiryTime(it, now) == Plus(now, Times(Or(PerishOf(it), Num(0)), MsPerDay))

\* The callback of parsedItems.map throws on a null element (a property of
\* null) and on an invalid time value (toISOString).
MapThrows(it, now) == it.kind = "null" \/ ExpiryTime(it, now).t = "nan"

MapError(it) ==
    IF it.kind = "null" THEN "Cannot read properties of null (reading 'item')"
    ELSE "Invalid time value"

ItemRow(it, now) ==
    [item_name |-> ItemOf(it), added_on |-> now,
     expires_on |-> Some(ExpiryTime(it, now).n)]

\* A variant that skips the entries without a label: C3 must tell it from
\* ItemsToInsert.
ItemsToInsertLabelled(parsedItems, now) ==
    LET elems == IF parsedItems.kind = "array" THEN parsedItems.elems ELSE <<>>
        kept == SelectSeq(elems, LAMBDA it : ~IsNull(ItemOf(it)))
    IN  [threw |-> \E i \in 1..Len(elems) : MapThrows(elems[i], now),
         message |-> "",
         rows |-> [i \in 1..Len(kept) |-> ItemRow(kept[i], now)]]

\* parsedItems.map(...): [threw, message, rows]
ItemsToInsert(parsedItems, now) ==
    IF parsedItems.kind # "array"
    THEN [threw |-> TRUE, message |-> "parsedItems.map is not a function", rows |-> <<>>]
    ELSE LET elems == parsedItems.elems
             bad == {i \in 1..Len(elems) : MapThrows(elems[i], now)}
         IN  IF bad # {}
             THEN [threw |-> TRUE,
                   message |-> MapError(elems[CHOOSE i \in bad : \A j \in bad : i <= j]),
                   rows |-> <<>>]
             ELSE [threw |-> FALSE, message |-> "",
                   rows |-> [i \in 1..Len(elems) |-> ItemRow(elems[i], now)]]


(***************************************************************************)
(* ReceiptUpload.jsx.                                                      *)
(***************************************************************************)
WhiteSpace == {" ", "\n"}

HandleImageChange(file) ==
    /\ Running /\ page = "scan" /\ ~scanLoading
    /\ image' = file
    /\ cleanedItems' = JsonArray(<<>>)
    /\ scanError' = ""
    /\ UNCHANGED <<scanCall, proxy, fresh, clock, storeVars, net, page, fridgeVars, alertMsg, scanLoading,
                   scanPc, recipeVars>>

\* The Scan button is disabled without an image and while loading.
HandleScan ==
    /\ Running /\ page = "scan" /\ image /\ ~scanLoading
    /\ scanLoading' = TRUE
    /\ scanError' = ""
    /\ scanPc' = "ocr"
    /\ UNCHANGED <<scanCall, proxy, fresh, clock, storeVars, net, page, fridgeVars, alertMsg, image,
                   cleanedItems, recipeVars>>

\* catch (err) { setError(err.message) } finally { setLoading(false) }
\* A variant without the finally block: C19 must tell it from ScanFails.
ScanFailsStillLoading(message) ==
    /\ scanError' = message
    /\ scanLoading' = scanLoading
    /\ scanPc' = "idle"

ScanFails(message) ==
    /\ scanError' = message
    /\ scanLoading' = FALSE
    /\ scanPc' = "idle"

\* A variant that only checks the text for '': C11 must tell it from
\* HandleScanOcr.
HandleScanOcrUntrimmed(ocr) ==
    /\ Running /\ scanPc = "ocr"
    /\ IF ocr.failed THEN ScanFails("Error: recognize failed")
       ELSE IF ocr.text = <<>>
            THEN ScanFails("No text extracted from the image.")
            ELSE scanPc' = "gemini" /\ UNCHANGED <<scanLoading, scanError>>
    /\ scanCall' = IF scanPc' = "gemini" THEN Some(ocr.text) ELSE Null
    /\ UNCHANGED <<proxy, fresh, clock, storeVars, net, page, fridgeVars, alertMsg, image,
                   cleanedItems, recipeVars>>

\* Tesseract.recognize settles: ocr is [failed, text]
HandleScanOcr(ocr) ==
    /\ Running /\ scanPc = "ocr"
    /\ IF ocr.failed THEN ScanFails("Error: recognize failed")
       ELSE IF Trim(ocr.text, WhiteSpace) = <<>>
            THEN ScanFails("No text extracted from the image.")
            ELSE scanPc' = "gemini" /\ UNCHANGED <<scanLoading, scanError>>
    /\ scanCall' = IF scanPc' = "gemini" THEN Some(ocr.text) ELSE Null
    /\ UNCHANGED <<proxy, fresh, clock, storeVars, net, page, fridgeVars, alertMsg, image,
                   cleanedItems, recipeVars>>

\* callGeminiAPI settles: reply is [failed, text], text the proxy's data.text
\* (empty when the proxy answered with an error envelope or with no text);
\* then steps 3 and 4 up to the insert.
HandleScanGemini(reply) ==
    /\ Running /\ scanPc = "gemini"
    /\ LET cleanedText == StripFences(reply.text)
           parsedItems == JsonParse(cleanedText)
           mapped == ItemsToInsert(parsedItems, clock)
       IN  IF reply.failed
           THEN ScanFails("Failed to fetch") /\ UNCHANGED <<cleanedItems, net>>
           ELSE IF reply.text = <<>>
           THEN ScanFails("Gemini returned no usable text.")
                /\ UNCHANGED <<cleanedItems, net>>
           ELSE IF ~JsonParses(cleanedText)
           THEN ScanFails("Unexpected token in JSON") /\ UNCHANGED <<cleanedItems, net>>
           ELSE /\ cleanedItems' = parsedItems
                /\ IF mapped.threw
                   THEN ScanFails(mapped.message) /\ UNCHANGED net
                   ELSE /\ CanSend
                        /\ net' = Send(net, Request("insert", "scan", {}, mapped.rows,
                                                      0, FALSE))
                        /\ scanPc' = "insert"
                        /\ UNCHANGED <<scanLoading, scanError>>
    /\ scanCall' = Null
    /\ page' = IF RenderThrows(cleanedItems') THEN "crashed" ELSE page
    /\ UNCHANGED <<proxy, fresh, clock, storeVars, fridgeVars, alertMsg, image, recipeVars>>

\* A variant that, rejected, sends the batch again: C13 must tell it from
\* HandleScanInsertDone.
HandleScanInsertDoneRetrying(r, error) ==
    /\ Running /\ r \in InFlight
    /\ r.op = "insert" /\ r.owner = "scan"
    /\ IF error
       THEN /\ scanError' = "store error"
            /\ UNCHANGED <<storeVars, fresh, net, scanLoading, scanPc>>
       ELSE /\ HasRoom(r.rows)
            /\ store' = InsertRows(store, nextId, r.rows)
            /\ nextId' = nextId + Len(r.rows)
            /\ fresh' = FALSE
            /\ net' = Settled(r)
            /\ scanLoading' = FALSE
            /\ scanPc' = "idle"
            /\ UNCHANGED scanError
    /\ UNCHANGED <<scanCall, proxy, clock, page, fridgeVars, alertMsg, image, cleanedItems,
                   recipeVars>>

\* the insert settles
HandleScanInsertDone(r, error) ==
    /\ Running /\ r \in InFlight
    /\ r.op = "insert" /\ r.owner = "scan"
    /\ net' = Settled(r)
    /\ IF error
       THEN scanError' = "store error" /\ UNCHANGED <<storeVars, fresh>>
       ELSE /\ HasRoom(r.rows)
            /\ store' = InsertRows(store, nextId, r.rows)
            /\ nextId' = nextId + Len(r.rows)
            /\ fresh' = FALSE
            /\ UNCHANGED scanError
    /\ scanLoading' = FALSE
    /\ scanPc' = "idle"
    /\ UNCHANGED <<scanCall, proxy, clock, page, fridgeVars, alertMsg, image, cleanedItems, recipeVars>>

(***************************************************************************)
(* App: the page switch.  Leaving a page unmounts its components: their    *)
(* state is gone, and what they still await resumes without them.          *)
(***************************************************************************)
\* What an unmounted Fridge still awaits: its fetches set nothing any more
\* and are dropped; its writes still reach the store.
RECURSIVE Unmounted(_)
Unmounted(reqs) ==
    IF reqs = EmptyBag THEN EmptyBag
    ELSE LET r == CHOOSE x \in BagToSet(reqs) : TRUE
             rest == [x \in BagToSet(reqs) \ {r} |-> reqs[x]]
         IN  IF r.op = "select" THEN Unmounted(rest)
             ELSE Unmounted(rest) (+) [x \in {[r EXCEPT !.live = FALSE]} |-> reqs[r]]

\* Dashboard's "+ Add Receipt"
OnAddReceipt ==
    /\ Running /\ page = "dashboard"
    /\ page' = "scan"
    /\ net' = Unmounted(net)
    /\ items' = <<>>
    /\ editingItemId' = Null
    /\ loading' = TRUE
    /\ fresh' = FALSE
    /\ fridgeItems' = <<>>
    /\ recipeCall' = Null
    /\ response' = Null
    /\ recipes' = <<>>
    /\ recipeLoading' = FALSE
    /\ recipeError' = ""
    /\ UNCHANGED <<proxy, clock, storeVars, alertMsg, scanVars>>

\* ReceiptUpload's "Skip and go to Dashboard" / "Continue to Dashboard":
\* disabled, or under the overlay, while loading.  Fridge mounts and fetches.
OnContinue ==
    /\ Running /\ page = "scan" /\ ~scanLoading
    /\ BagCardinality(net) + 2 <= MaxInFlight
    /\ page' = "dashboard"
    /\ image' = FALSE
    /\ cleanedItems' = JsonArray(<<>>)
    /\ scanError' = ""
    /\ net' = Send(Send(net, SelectRequest(TRUE)), FetchFridgeItems)
    /\ UNCHANGED <<scanCall, proxy, fresh, clock, storeVars, fridgeVars, alertMsg, scanLoading, scanPc,
                   recipeVars>>

(***************************************************************************)
(* RecipeList.  A text is the sequence of its characters.                  *)
(***************************************************************************)
\* /^##\s+/m matches at q: q starts a line, and reads ## and white space
HeadingAt(text, q) ==
    /\ q + 2 <= Len(text)
    /\ (q = 1 \/ text[q - 1] = "\n")
    /\ text[q] = "#" /\ text[q + 1] = "#"
    /\ text[q + 2] \in WhiteSpace

\* where the greedy \s+ stops: the first position from q on with no white space
RECURSIVE SkipSpaces(_, _)
SkipSpaces(text, q) ==
    IF q <= Len(text) /\ text[q] \in WhiteSpace THEN SkipSpaces(text, q + 1) ELSE q

\* String.prototype.split on the regular expression: the piece that began at
\* p ends where the next match begins, and the next piece begins where that
\* match ends; the last piece runs to the end of the text.
RECURSIVE SplitFrom(_, _, _)
SplitFrom(text, p, q) ==
    IF q > Len(text) THEN <<SubSeq(text, p, Len(text))>>
    ELSE IF HeadingAt(text, q)
         THEN <<SubSeq(text, p, q - 1)>>
              \o SplitFrom(text, SkipSpaces(text, q + 2), SkipSpaces(text, q + 2))
         ELSE SplitFrom(text, p, q + 1)

\* textResponse.split(/^##\s+/gm)
SplitAtHeadings(text) == SplitFrom(text, 1, 1)

HeadingMarker == <<"#", "#", " ">>

\* .split(...).filter(Boolean).map((section) => `## ${section.trim()}`)
RecipeSections(text) ==
    LET sections == SelectSeq(SplitAtHeadings(text), LAMBDA sec : sec # <<>>)
    IN  [i \in 1..Len(sections) |-> HeadingMarker \o Trim(sections[i], WhiteSpace)]

\* What response.json() gives: { text } with text a string, { text } with a
\* text that is no string, or the proxy's { error, details }.
TextData(text) == [kind |-> "text", text |-> text]
NonTextData == [kind |-> "number", text |-> <<>>]
ErrorData == [kind |-> "error", text |-> <<>>]

\* data.text || (data.candidates?.length > 0 ? ... : ""): the proxy sends no
\* candidates
TextResponse(data) == IF data.kind = "error" THEN TextData(<<>>) ELSE data

\* !textResponse || typeof textResponse !== 'string'
IsEmptyResponse(textResponse) ==
    textResponse.kind # "text" \/ textResponse.text = <<>>

\* The Generate button is disabled while loading.
\* .select('item_name, expires_on').order('expires_on').  RecipeList reads
\* item_name only (callGeminiAPI), so a loaded row is kept as that column.
SelectNames(tbl) ==
    LET sorted == OrderByExpiresOn(tbl)
    IN  [i \in 1..Len(sorted) |-> [item_name |-> sorted[i].item_name]]

\* The store answers fetchFridgeItems; an error is logged to the console.
FetchFridgeItemsDone(r, error) ==
    /\ Running /\ r \in InFlight
    /\ r.op = "select" /\ r.owner = "recipes"
    /\ net' = Settled(r)
    /\ fridgeItems' = IF error THEN fridgeItems ELSE SelectNames(store)
    /\ UNCHANGED <<proxy, fresh, clock, storeVars, page, fridgeVars, alertMsg, scanVars,
                   recipeCall, response, recipes, recipeLoading, recipeError>>

\* fridgeItems.map(item => item.item_name): the names, before the join.
IngredientList(rows) == [i \in 1..Len(rows) |-> rows[i].item_name]

\* The Generate button: handleGenerateRecipes up to the fetch of
\* callGeminiAPI, which carries the ingredient list in its prompt.
HandleGenerateRecipes ==
    /\ Running /\ page = "dashboard" /\ ~recipeLoading
    /\ recipeCall' = Some(IngredientList(fridgeItems))
    /\ recipeLoading' = TRUE
    /\ recipeError' = ""
    /\ recipes' = <<>>
    /\ response' = Null
    /\ UNCHANGED <<fridgeItems, proxy, fresh, clock, storeVars, net, page, fridgeVars, alertMsg,
                   scanVars>>

\* callGeminiAPI settles with reply = [failed, data] (failed: fetch rejected),
\* and handleGenerateRecipes resumes: catch, finally.
CallGeminiDone(reply) ==
    /\ Running /\ page = "dashboard" /\ recipeLoading
    /\ recipeCall' = Null
    /\ response' = Some(reply)
    /\ IF reply.failed
       THEN recipeError' = "Failed to fetch" /\ UNCHANGED recipes
       ELSE IF IsEmptyResponse(TextResponse(reply.data))
       THEN recipeError' = "Empty response from AI." /\ UNCHANGED recipes
       ELSE /\ recipes' = RecipeSections(TextResponse(reply.data).text)
            /\ UNCHANGED recipeError
    /\ recipeLoading' = FALSE
    /\ UNCHANGED <<fridgeItems, proxy, fresh, clock, storeVars, net, page, fridgeVars, alertMsg, scanVars>>

(***************************************************************************)
(* The proxy: app.post("/api/gemini").  Express runs the handler once per  *)
(* request, and requests overlap at its await.  A request is [pc,          *)
(* contents, upstream, outcome, responses]: where its handler stands,      *)
(* whether its body has a truthy contents, how many calls it made          *)
(* upstream, how the call ended, and the responses written for it.         *)
(***************************************************************************)
NoRequest ==
    [pc |-> "none", contents |-> FALSE, upstream |-> 0, outcome |-> "none",
     responses |-> <<>>]

\* res.status(status).json(body)
Response(status, body, text) == [status |-> status, body |-> body, text |-> text]

\* How the call upstream can end: fetch rejects; the answer is not OK, with a
\* JSON body or with a body that is no JSON; the answer is OK, with a
\* candidate text or without candidates.
UpstreamOutcomes == {"rejected", "not-ok", "not-ok-no-json", "ok-text", "ok-no-candidates"}

\* The request arrives: line 36-39, and the fetch of line 44 is started.
ProxyReceive(i, contents) ==
    /\ proxy[i].pc = "none"
    /\ proxy' = [proxy EXCEPT ![i] =
          IF ~contents
          THEN [@ EXCEPT !.pc = "done",
                         !.responses = Append(@, Response(400, "error", ""))]
          ELSE [@ EXCEPT !.pc = "upstream", !.contents = TRUE, !.upstream = @ + 1]]
    /\ UNCHANGED <<clock, storeVars, net, page, fridgeVars, fresh, alertMsg, scanVars,
                   recipeVars>>

\* What the handler answers once the call upstream has ended: lines 44-61.
ProxyAnswer(outcome) ==
    CASE outcome = "rejected" -> Response(500, "error", "")
      [] outcome = "not-ok-no-json" -> Response(500, "error", "")
      [] outcome = "not-ok" -> Response(502, "error", "")
      [] outcome = "ok-text" -> Response(200, "text", "recipes")
      [] outcome = "ok-no-candidates" -> Response(200, "text", "")

ProxyUpstreamDone(i, outcome) ==
    /\ proxy[i].pc = "upstream"
    /\ proxy' = [proxy EXCEPT ![i] =
          [@ EXCEPT !.pc = "done", !.outcome = outcome,
                    !.responses = Append(@, ProxyAnswer(outcome))]]
    /\ UNCHANGED <<clock, storeVars, net, page, fridgeVars, fresh, alertMsg, scanVars,
                   recipeVars>>

(***************************************************************************)
(* Inputs.                                                                 *)
(***************************************************************************)
SeqsUpTo(S, n) == UNION {[1..k -> S] : k \in 0..n}

OcrTexts == {<<>>, <<" ", "\n">>, <<"M", "I", "L", "K">>}
OcrResults == {[failed |-> TRUE, text |-> <<>>]}
              \cup {[failed |-> FALSE, text |-> t] : t \in OcrTexts}

Milk1 == Entry(Some("Milk"), Num(1))
Eggs0 == Entry(Some("Eggs"), Num(0))

\* Elements of an extraction response: as asked for, and otherwise.
GoodElements == {Milk1, Eggs0}

OddElements ==
    {Entry(Some("Milk"), Undefined),
     Entry(Some("Milk"), JsNull),
     Entry(Some("Milk"), Str("soon")),
     Entry(Some("Milk"), Str("2")),
     Entry(Some("Milk"), Obj),
     Entry(Null, Num(1)),
     StringElement,
     NullElement}

\* Arrays of up to MaxEntries good elements, and arrays with one odd element.
GoodArrays == {JsonArray(e) : e \in SeqsUpTo(GoodElements, MaxEntries)}
OddArrays ==
    UNION {{JsonArray(<<x>>), JsonArray(<<Milk1, x>>), JsonArray(<<x, Eggs0>>)} :
           x \in OddElements}

Reply(text) == [failed |-> FALSE, text |-> text]

\* What callGeminiAPI may settle with in a scan.
GeminiReplies ==
    {[failed |-> TRUE, text |-> <<>>], Reply(<<>>), Reply(<<Words>>),
     Reply(<<Json(JsonObject)>>),
     Reply(<<Fence, Words, Space, Json(JsonArray(<<Milk1>>)), Space, Fence>>)}
    \cup {Reply(<<Json(v)>>) : v \in GoodArrays \cup OddArrays}
    \cup {Reply(<<FenceJson, Space, Json(v), Space, Fence>>) : v \in GoodArrays}

\* The replies of a session that also uses the dashboard.
SessionReplies ==
    {[failed |-> TRUE, text |-> <<>>],
     Reply(<<Json(JsonArray(<<Milk1>>))>>),
     Reply(<<FenceJson, Space, Json(JsonArray(<<Eggs0>>)), Space, Fence>>)}

Init ==
    /\ clock = 0
    /\ store = InitialStore
    /\ nextId = Len(store) + 1
    /\ page = "dashboard"
    /\ net = SetToBag({SelectRequest(TRUE), FetchFridgeItems})
    /\ items = <<>>
    /\ editingItemId = Null
    /\ loading = TRUE
    /\ fresh = FALSE
    /\ alertMsg = ""
    /\ image = FALSE
    /\ cleanedItems = JsonArray(<<>>)
    /\ scanLoading = FALSE
    /\ scanError = ""
    /\ scanPc = "idle"
    /\ scanCall = Null
    /\ fridgeItems = <<>>
    /\ recipeCall = Null
    /\ response = <<>>
    /\ recipes = <<>>
    /\ recipeLoading = FALSE
    /\ recipeError = ""
    /\ proxy = [i \in 1..MaxRequests |-> NoRequest]


(***************************************************************************)
(* The session: dashboard and scan page.                                   *)
(***************************************************************************)
Next ==
    \/ Tick
    \/ DismissAlert
    \/ \E r \in InFlight, error \in BOOLEAN : FetchItemsDone(r, error)
    \/ \E r \in InFlight, error \in BOOLEAN : FetchFridgeItemsDone(r, error)
    \/ \E name \in NameInputs, day \in AddDateInputs : HandleAddItem(name, day)
    \/ \E r \in InFlight, error \in BOOLEAN : HandleAddItemDone(r, error)
    \/ \E id \in 1..MaxId : HandleDeleteItem(id)
    \/ \E r \in InFlight, error \in BOOLEAN : HandleDeleteDone(r, error)
    \/ HandleClearExpired
    \/ \E id \in 1..MaxId : HandleEditClick(id)
    \/ \E day \in EditDateInputs : HandleSaveEdit(day)
    \/ \E r \in InFlight, error \in BOOLEAN : HandleSaveEditDone(r, error)
    \/ OnAddReceipt
    \/ OnContinue
    \/ \E file \in BOOLEAN : HandleImageChange(file)
    \/ HandleScan
    \/ \E ocr \in OcrResults : HandleScanOcr(ocr)
    \/ \E reply \in SessionReplies : HandleScanGemini(reply)
    \/ \E r \in InFlight, error \in BOOLEAN : HandleScanInsertDone(r, error)

Spec == Init /\ [][Next]_vars


(***************************************************************************)
(* The scan page alone, from an empty table, with every kind of reply.     *)
(***************************************************************************)
InitScan ==
    /\ clock = 0
    /\ store = <<>>
    /\ nextId = 1
    /\ page = "scan"
    /\ net = EmptyBag
    /\ items = <<>>
    /\ editingItemId = Null
    /\ loading = TRUE
    /\ fresh = FALSE
    /\ alertMsg = ""
    /\ image = FALSE
    /\ cleanedItems = JsonArray(<<>>)
    /\ scanLoading = FALSE
    /\ scanError = ""
    /\ scanPc = "idle"
    /\ scanCall = Null
    /\ fridgeItems = <<>>
    /\ recipeCall = Null
    /\ response = <<>>
    /\ recipes = <<>>
    /\ recipeLoading = FALSE
    /\ recipeError = ""
    /\ proxy = [i \in 1..MaxRequests |-> NoRequest]

NextScan ==
    \/ Tick
    \/ \E file \in BOOLEAN : HandleImageChange(file)
    \/ HandleScan
    \/ \E ocr \in OcrResults : HandleScanOcr(ocr)
    \/ \E reply \in GeminiReplies : HandleScanGemini(reply)
    \/ \E r \in InFlight, error \in BOOLEAN : HandleScanInsertDone(r, error)

SpecScan == InitScan /\ [][NextScan]_vars

(***************************************************************************)
(* The recipe panel alone, with every short answer of the proxy.           *)
(***************************************************************************)
Chars == {"#", " ", "\n", "a"}

\* "preamble\n## A\ntext1\n## B\ntext2"
TwoRecipes ==
    <<"#", "#", " ", "A", "\n", "t", "e", "x", "t", "1", "\n",
      "#", "#", " ", "B", "\n", "t", "e", "x", "t", "2">>
PreambleAndTwoRecipes == <<"p", "r", "e", "a", "m", "b", "l", "e", "\n">> \o TwoRecipes

RecipeTexts == SeqsUpTo(Chars, MaxLen) \cup {TwoRecipes, PreambleAndTwoRecipes}

RecipeReplies ==
    {[failed |-> TRUE, data |-> ErrorData]}
    \cup {[failed |-> FALSE, data |-> d] : d \in {ErrorData, NonTextData}}
    \cup {[failed |-> FALSE, data |-> TextData(t)] : t \in RecipeTexts}

InitRecipe ==
    /\ clock = 0
    /\ store = InitialStore
    /\ nextId = Len(store) + 1
    /\ page = "dashboard"
    /\ net = EmptyBag
    /\ items = SelectItems(store)
    /\ editingItemId = Null
    /\ loading = FALSE
    /\ fresh = TRUE
    /\ alertMsg = ""
    /\ image = FALSE
    /\ cleanedItems = JsonArray(<<>>)
    /\ scanLoading = FALSE
    /\ scanError = ""
    /\ scanPc = "idle"
    /\ scanCall = Null
    /\ fridgeItems = SelectNames(store)
    /\ recipeCall = Null
    /\ response = Null
    /\ recipes = <<>>
    /\ recipeLoading = FALSE
    /\ recipeError = ""
    /\ proxy = [i \in 1..MaxRequests |-> NoRequest]

NextRecipe ==
    \/ HandleGenerateRecipes
    \/ \E reply \in RecipeReplies : CallGeminiDone(reply)

SpecRecipe == InitRecipe /\ [][NextRecipe]_vars

(***************************************************************************)
(* The proxy alone, the client idle.                                       *)
(***************************************************************************)
NextProxy ==
    \/ \E i \in 1..MaxRequests, contents \in BOOLEAN : ProxyReceive(i, contents)
    \/ \E i \in 1..MaxRequests, outcome \in UpstreamOutcomes : ProxyUpstreamDone(i, outcome)

SpecProxy == InitScan /\ [][NextProxy]_vars

(***************************************************************************)
(* The dashboard alone: Fridge and RecipeList side by side, both mounted   *)
(* a moment ago.                                                           *)
(***************************************************************************)
DashboardReplies ==
    {[failed |-> TRUE, data |-> ErrorData],
     [failed |-> FALSE, data |-> TextData(TwoRecipes)]}

NextDashboard ==
    \/ DismissAlert
    \/ \E r \in InFlight, error \in BOOLEAN : FetchItemsDone(r, error)
    \/ \E r \in InFlight, error \in BOOLEAN : FetchFridgeItemsDone(r, error)
    \/ \E name \in NameInputs, day \in AddDateInputs : HandleAddItem(name, day)
    \/ \E r \in InFlight, error \in BOOLEAN : HandleAddItemDone(r, error)
    \/ \E id \in 1..MaxId : HandleDeleteItem(id)
    \/ \E r \in InFlight, error \in BOOLEAN : HandleDeleteDone(r, error)
    \/ HandleGenerateRecipes
    \/ \E reply \in DashboardReplies : CallGeminiDone(reply)

SpecDashboard == Init /\ [][NextDashboard]_vars

(***************************************************************************)
(* Scans and generations whose calls all come back.  An await resumes when *)
(* its promise settles: Tesseract.recognize, fetch and the store's insert  *)
(* are taken to settle, with a result or with a failure.                   *)
(***************************************************************************)
NextSettling ==
    \/ \E r \in InFlight, error \in BOOLEAN : FetchItemsDone(r, error)
    \/ \E r \in InFlight, error \in BOOLEAN : FetchFridgeItemsDone(r, error)
    \/ OnAddReceipt
    \/ OnContinue
    \/ \E file \in BOOLEAN : HandleImageChange(file)
    \/ HandleScan
    \/ \E ocr \in OcrResults : HandleScanOcr(ocr)
    \/ \E reply \in GeminiReplies : HandleScanGemini(reply)
    \/ \E r \in InFlight, error \in BOOLEAN : HandleScanInsertDone(r, error)
    \/ HandleGenerateRecipes
    \/ \E reply \in DashboardReplies : CallGeminiDone(reply)

SpecSettling ==
    /\ Init /\ [][NextSettling]_vars
    /\ WF_vars(\E ocr \in OcrResults : HandleScanOcr(ocr))
    /\ WF_vars(\E reply \in GeminiReplies : HandleScanGemini(reply))
    /\ WF_vars(\E r \in InFlight, error \in BOOLEAN : HandleScanInsertDone(r, error))
    /\ WF_vars(\E reply \in DashboardReplies : CallGeminiDone(reply))

(***************************************************************************)
(* Claims about the scan.                                                  *)
(***************************************************************************)
ScanInserts == {r \in InFlight : r.op = "insert" /\ r.owner = "scan"}

\* The step in which handleScan submits its insert.
ScanSubmits == scanPc = "gemini" /\ scanPc' = "insert"

\* The step in which the insert of a scan succeeds.
ScanSucceeds == scanPc = "insert" /\ scanPc' = "idle" /\ scanError' = ""

IsDayCount(it) ==
    it.kind = "object" /\ it.perish_in_days.t = "number" /\ it.perish_in_days.n >= 0

\* C1: when a scan submits its rows, the row of every entry whose
\* perish_in_days is a non-negative integer d has expires_on = added_on +
\* d * 24 h, and added_on is, in every row of the batch, the instant the
\* batch was built at.
C1_ExpiryIsAddedOnPlusDays ==
    [][ScanSubmits =>
        \A r \in BagToSet(net') \ BagToSet(net) :
            /\ Len(r.rows) = Len(cleanedItems'.elems)
            /\ \A i \in 1..Len(r.rows) :
                /\ r.rows[i].added_on = clock
                /\ IsDayCount(cleanedItems'.elems[i]) =>
                     r.rows[i].expires_on =
                        Some(r.rows[i].added_on
                             + cleanedItems'.elems[i].perish_in_days.n * 86400000)]_vars

C1_Witness ==
    \E r \in ScanInserts : \E i \in 1..Len(r.rows) :
        /\ Len(r.rows) = Len(cleanedItems.elems)
        /\ cleanedItems.elems[i].perish_in_days = Num(1)
        /\ r.rows[i].added_on > 0
        /\ r.rows[i].expires_on = Some(r.rows[i].added_on + 86400000)

IsMissingOrNonNumeric(it) ==
    /\ it.kind = "object"
    /\ \/ it.perish_in_days.t \in {"undefined", "null", "object"}
       \/ it.perish_in_days.t = "string" /\ it.perish_in_days.s = "soon"

AllObjects(v) ==
    v.kind = "array" /\ \A i \in 1..Len(v.elems) : v.elems[i].kind = "object"

\* C2: an entry whose perish_in_days is missing or non-numeric still gets a
\* row, with expires_on = added_on: the scan does not fail on it, and the
\* row submitted for it has a zero offset.
C2_MissingDaysExpireNow ==
    \A i \in 1..Len(cleanedItems.elems) :
        (AllObjects(cleanedItems) /\ IsMissingOrNonNumeric(cleanedItems.elems[i])) =>
            /\ scanError # "Invalid time value"
            /\ \A r \in ScanInserts :
                /\ Len(r.rows) = Len(cleanedItems.elems)
                /\ r.rows[i].expires_on = Some(r.rows[i].added_on)

\* What the code does with such entries: an absent or null perish_in_days
\* gives a zero offset; anything else that is no number makes the scan fail.
C2_Witness ==
    \E r \in ScanInserts : \E i \in 1..Len(r.rows) :
        /\ Len(r.rows) = Len(cleanedItems.elems)
        /\ cleanedItems.elems[i].perish_in_days.t = "undefined"
        /\ r.rows[i].expires_on = Some(r.rows[i].added_on)

LabelOf(it) == IF it.kind = "object" THEN it.item ELSE Null

\* C3: a scan submits one insert, of one row per entry, in entry order, row i
\* named after entry i; when the insert succeeds the table gains exactly
\* these rows, and the scan sends nothing more.
C3_OneRowPerEntry ==
    [][/\ ScanSubmits =>
            /\ BagCardinality(net') = BagCardinality(net) + 1
            /\ \A r \in BagToSet(net') \ BagToSet(net) :
                /\ r.op = "insert"
                /\ Len(r.rows) = Len(cleanedItems'.elems)
                /\ \A i \in 1..Len(r.rows) :
                     r.rows[i].item_name = LabelOf(cleanedItems'.elems[i])
       /\ ScanSucceeds =>
            /\ Len(store') = Len(store) + Len(cleanedItems.elems)
            /\ SubSeq(store', 1, Len(store)) = store
            /\ \A i \in 1..Len(cleanedItems.elems) :
                 /\ store'[Len(store) + i].item_name = LabelOf(cleanedItems.elems[i])
                 /\ \A j \in 1..Len(store') :
                      store'[j].id = store'[Len(store) + i].id => j = Len(store) + i
            /\ BagCardinality(net') = BagCardinality(net) - 1
            /\ {r \in BagToSet(net') : r.owner = "scan"} = {}]_vars

C3_Witness ==
    /\ scanPc = "idle" /\ ~scanLoading /\ scanError = ""
    /\ Len(cleanedItems.elems) = 2 /\ Len(store) = 2
    /\ store[1].item_name = Some("Eggs") /\ store[2].item_name = Some("Milk")
    /\ cleanedItems.elems[1].item = Some("Eggs")
    /\ cleanedItems.elems[2].item = Some("Milk")

\* The expected shape, read generously: an array of objects.  (An object
\* without a label or a day count is left to C2 and C3.)
ExpectedShape(v) ==
    v.kind = "array" /\ \A i \in 1..Len(v.elems) : v.elems[i].kind = "object"

\* C4: a response that does not parse as an array of {label, day count}
\* objects fails the scan: nothing of it is in the preview, no insert is
\* sent for it, and the scan ends with an error.
C4_BadShapeFailsTheScan ==
    ~ExpectedShape(cleanedItems) =>
        /\ ~PreviewShown
        /\ ScanInserts = {}
        /\ scanPc = "idle" => scanError # ""

(***************************************************************************)
(* Claims about the dashboard.                                             *)
(***************************************************************************)
\* The ids of the loaded items whose expiry is at or before now.
LoadedExpired ==
    {items[i].id : i \in {k \in 1..Len(items) :
        ~IsNull(items[k].expires_on) /\ Val(items[k].expires_on) <= clock}}

DeleteOf(ids) == Request("delete", "fridge", ids, <<>>, 0, FALSE)

RowsOf(tbl) == Range(tbl)

\* C5: when some loaded item is expired, clear-expired sends one delete, of
\* exactly the ids of the loaded items with expires_on <= now, and writes
\* nothing itself; when a delete settles, the table loses exactly its rows
\* with these ids: a row with a later expiry, with no expiry, or not in the
\* loaded list stays, whatever else the table holds.
C5_ClearExpiredDeletesLoadedExpired ==
    [][/\ (HandleClearExpired /\ LoadedExpired # {}) =>
            /\ net' = Send(net, DeleteOf(LoadedExpired))
            /\ store' = store
       /\ \A r \in InFlight : HandleDeleteDone(r, FALSE) =>
            /\ RowsOf(store') = {row \in RowsOf(store) : row.id \notin r.ids}
            /\ Len(store') = Cardinality(RowsOf(store'))]_vars

\* Both loaded items have expired (one of them at this very instant), the
\* table holds them, and the delete of the two is in flight.
C5_Witness ==
    /\ Len(items) = 2 /\ LoadedExpired = {1, 2}
    /\ \E i \in 1..2 : items[i].expires_on = Some(clock)
    /\ Len(store) = 2
    /\ DeleteOf({1, 2}) \in InFlight

\* C6: when no loaded item is expired, clear-expired sends nothing, leaves
\* the table and the loaded list as they are, and tells the user so.
C6_NothingExpiredIsANoOp ==
    [][(HandleClearExpired /\ LoadedExpired = {}) =>
            /\ net' = net
            /\ store' = store
            /\ items' = items
            /\ alertMsg' = "No expired items to clear."]_vars

\* The alert is up over a loaded list of two items, one without expiry and
\* one expiring later, and nothing is in flight.
C6_Witness ==
    /\ alertMsg = "No expired items to clear."
    /\ Len(items) = 2 /\ LoadedExpired = {}
    /\ \E i \in 1..2 : ~IsNull(items[i].expires_on)
    /\ net = EmptyBag

SortedByExpiresOn(list) ==
    \A i, j \in 1..Len(list) :
        (i < j /\ ~IsNull(list[i].expires_on) /\ ~IsNull(list[j].expires_on)) =>
            Val(list[i].expires_on) <= Val(list[j].expires_on)

UpdateOf(id, exp) == Request("update", "fridge", {id}, <<>>, exp, FALSE)

\* C10: Save with a date sends one update, of the row being edited, and
\* writes nothing itself; Save without a date sends nothing and writes
\* nothing.  When an update settles, the table keeps its rows in place, and
\* only expires_on of the row with the request's id may differ.
C10_SaveEditChangesOneExpiry ==
    [][/\ \A day \in EditDateInputs : HandleSaveEdit(day) =>
            /\ store' = store
            /\ net' = IF IsNull(day) THEN net
                      ELSE Send(net, UpdateOf(Val(editingItemId), Val(day) * 86400000))
       /\ \A r \in InFlight : HandleSaveEditDone(r, FALSE) =>
            /\ Len(store') = Len(store)
            /\ Cardinality(r.ids) = 1
            /\ \A i \in 1..Len(store) :
                /\ store'[i].id = store[i].id
                /\ store'[i].item_name = store[i].item_name
                /\ store'[i].added_on = store[i].added_on
                /\ store[i].id \notin r.ids => store'[i] = store[i]]_vars

\* The table holds two rows; the update of row 1 has settled and gave it an
\* expiry; row 2 is as it was added.
C10_Witness ==
    /\ Len(store) = 2
    /\ store[1] = StoreRow(1, Some("Kale"), 0, Some(172800000))
    /\ store[2].expires_on = Some(86400000)
    /\ IsNull(editingItemId) /\ page = "dashboard"

(***************************************************************************)
(* Claims about the recipes.                                               *)
(***************************************************************************)
\* A generation has ended on an answer from the proxy.
Answered == ~IsNull(response) /\ ~recipeLoading /\ ~Val(response).failed

AnswerText == TextResponse(Val(response).data).text

\* The line-start ## headings of a text, and the k-th of them.
Headings(text) == {q \in 1..Len(text) : HeadingAt(text, q)}

NthHeading(text, k) ==
    CHOOSE q \in Headings(text) : Cardinality({h \in Headings(text) : h < q}) = k - 1

\* What stands under the k-th heading: from the end of its marker to the
\* next heading, or to the end of the text.
BodyOf(text, k) ==
    LET from == SkipSpaces(text, NthHeading(text, k) + 2)
        upto == IF k < Cardinality(Headings(text))
                THEN NthHeading(text, k + 1) - 1 ELSE Len(text)
    IN  SubSeq(text, from, upto)

HasRecipes(text) ==
    /\ Headings(text) # {}
    /\ \A k \in 1..Cardinality(Headings(text)) : BodyOf(text, k) # <<>>

\* C7: a generation that ends on a text with headings, each with something
\* under it, loads one segment per heading, in order: the k-th is the marker
\* and what stands under the k-th heading; what stands before the first
\* heading is in no segment.
C7_OneSegmentPerHeading ==
    (Answered /\ ~IsEmptyResponse(TextResponse(Val(response).data))
              /\ HasRecipes(AnswerText)) =>
        /\ Len(recipes) = Cardinality(Headings(AnswerText))
        /\ \A k \in 1..Len(recipes) :
             recipes[k] = HeadingMarker \o Trim(BodyOf(AnswerText, k), WhiteSpace)

\* The case the code gets right: the text begins with its first heading.
C7_Witness ==
    /\ Answered /\ Val(response).data = TextData(TwoRecipes)
    /\ Len(recipes) = 2
    /\ recipes[1] = SubSeq(TwoRecipes, 1, 10)
    /\ recipes[2] = SubSeq(TwoRecipes, 12, 21)

\* C8: a generation that ends on an empty answer, on an answer that is no
\* text, or on a text without any heading fails: the error is set and no
\* recipe is loaded.
C8_NoHeadingFailsGeneration ==
    (Answered /\ (\/ IsEmptyResponse(TextResponse(Val(response).data))
                  \/ Headings(AnswerText) = {})) =>
        /\ recipeError # ""
        /\ recipes = <<>>

\* The cases the code gets right: an empty answer and one that is no text.
C8_Witness ==
    /\ Answered /\ Val(response).data \in {NonTextData, TextData(<<>>), ErrorData}
    /\ recipeError = "Empty response from AI." /\ recipes = <<>>

(***************************************************************************)
(* Claims about failures.                                                  *)
(***************************************************************************)
IsBlank(text) == \A i \in 1..Len(text) : text[i] \in {" ", "\n"}

\* C11: when the OCR completes with a text that is empty or all white
\* space, the scan ends there with an error shown: the extraction service is
\* not called, nothing is sent to the store, the table and the preview stay
\* as they are.
C11_BlankOcrFailsTheScan ==
    [][\A ocr \in OcrResults :
        (HandleScanOcr(ocr) /\ ~ocr.failed /\ IsBlank(ocr.text)) =>
            /\ scanPc' = "idle" /\ ~scanLoading'
            /\ scanError' # ""
            /\ net' = net /\ store' = store
            /\ cleanedItems' = cleanedItems]_vars

\* A scan has just ended on a blank OCR text.
C11_Witness ==
    /\ scanError = "No text extracted from the image."
    /\ scanPc = "idle" /\ ~scanLoading
    /\ store = <<>> /\ net = EmptyBag /\ ~PreviewShown

\* C13: when the store rejects the insert of a scan, the scan ends with the
\* store's error shown, the table is as it was, and nothing of the scan is
\* in flight any more: no second insert.  When the store accepts an insert,
\* the batch is appended under fresh ids whatever the table already holds:
\* rows with the same names stay and are not merged.
C13_RejectedBatchIsNotRetried ==
    [][\A r \in ScanInserts :
        /\ HandleScanInsertDone(r, TRUE) =>
            /\ scanError' = "store error"
            /\ scanPc' = "idle" /\ ~scanLoading'
            /\ store' = store /\ nextId' = nextId
            /\ {q \in BagToSet(net') : q.owner = "scan"} = {}
        /\ HandleScanInsertDone(r, FALSE) =>
            /\ SubSeq(store', 1, Len(store)) = store
            /\ Len(store') = Len(store) + Len(r.rows)
            /\ \A i \in 1..Len(r.rows) :
                 /\ store'[Len(store) + i].item_name = r.rows[i].item_name
                 /\ \A j \in 1..Len(store) : store[j].id # store'[Len(store) + i].id]_vars

\* A first scan of the receipt was rejected and left the table empty; the
\* scan was run again, and once more: the table holds the batch twice.
C13_Witness ==
    /\ scanPc = "idle" /\ scanError = "" /\ ~scanLoading
    /\ cleanedItems = JsonArray(<<Milk1>>)
    /\ Len(store) = 2
    /\ store[1].item_name = Some("Milk") /\ store[2].item_name = Some("Milk")
    /\ store[1].id # store[2].id

(***************************************************************************)
(* Claims about the proxy.                                                 *)
(***************************************************************************)
UpstreamFailures == {"rejected", "not-ok", "not-ok-no-json"}

\* The status the route is to answer a finished request with.
StatusFor(req) ==
    IF ~req.contents THEN 400
    ELSE IF req.outcome \in UpstreamFailures THEN 502
    ELSE 200

\* C12: every request the handler has finished has exactly one response:
\* 400, with no call upstream, when its body has no contents; 502 when the
\* call upstream failed; 200 with a text body when it succeeded.  (The
\* handler has no other step that can fail, so 500 is left for none.)
C12_ProxyStatusCodes ==
    \A i \in 1..MaxRequests :
        proxy[i].pc = "done" =>
            /\ Len(proxy[i].responses) = 1
            /\ proxy[i].responses[1].status = StatusFor(proxy[i])
            /\ ~proxy[i].contents => proxy[i].upstream = 0
            /\ proxy[i].responses[1].status = 200 => proxy[i].responses[1].body = "text"

\* What the handler gets right: one request answered 400 without a call
\* upstream, one answered 502 on an answer that is not OK, one answered 200
\* with the text.
C12_Witness ==
    /\ proxy[1].pc = "done" /\ proxy[1].responses = <<Response(400, "error", "")>>
    /\ proxy[1].upstream = 0
    /\ proxy[2].pc = "done" /\ proxy[2].outcome = "not-ok"
    /\ proxy[2].responses = <<Response(502, "error", "")>>
    /\ proxy[3].pc = "done" /\ proxy[3].outcome = "ok-text"
    /\ proxy[3].responses = <<Response(200, "text", "recipes")>>

(***************************************************************************)
(* Claims about the fences.                                                *)
(***************************************************************************)
\* A payload between a json fence and a closing fence, and the same with
\* white space around.
Fenced(v) == <<FenceJson, Space, Json(v), Space, Fence>>
FencedInSpace(v) == <<Space>> \o Fenced(v) \o <<Space, Space>>

Payloads == GoodArrays \cup OddArrays \cup {JsonObject}

\* C14: for every payload, what handleScan does on the fenced response is
\* what it does on the bare payload: the same entries in the preview, the
\* same rows sent to the store, the same error.
C14_FencesAreTransparent ==
    [][\A v \in Payloads :
        /\ HandleScanGemini(Reply(Fenced(v))) <=> HandleScanGemini(Reply(<<Json(v)>>))
        /\ HandleScanGemini(Reply(FencedInSpace(v))) <=> HandleScanGemini(Reply(<<Json(v)>>))]_vars

\* The rows of a two-entry payload are on their way to the store, as parsed
\* from the fenced response.
C14_Witness ==
    /\ scanPc = "insert"
    /\ cleanedItems = JsonParse(StripFences(Fenced(JsonArray(<<Eggs0, Milk1>>))))
    /\ \E r \in ScanInserts :
        /\ Len(r.rows) = 2
        /\ r.rows[1].item_name = Some("Eggs") /\ r.rows[2].item_name = Some("Milk")

(***************************************************************************)
(* Claims about overlap.                                                   *)
(***************************************************************************)
\* How many requests of the mounted Fridge with this operation are awaited.
Awaited(op) ==
    LET those == {r \in InFlight : r.owner = "fridge" /\ r.op = op /\ r.live}
    IN  BagCardinality([r \in those |-> net[r]])

\* C15: no action runs twice at once.  A scan awaits at most one step, and
\* the mounted Fridge awaits at most one insert (add) and at most one update
\* (save-edit).  (Deletes are left out: a delete and a clear-expired are two
\* actions with the same request.)
C15_NoOverlapOfOneAction ==
    /\ Cardinality(ScanInserts) <= 1
    /\ Awaited("insert") <= 1
    /\ Awaited("update") <= 1

(***************************************************************************)
(* Claims about what the user is told.                                     *)
(***************************************************************************)
\* The store rejects a request of the Fridge, of whichever handler.
FridgeRequestFails(r) ==
    \/ FetchItemsDone(r, TRUE)
    \/ HandleAddItemDone(r, TRUE)
    \/ HandleDeleteDone(r, TRUE)
    \/ HandleSaveEditDone(r, TRUE)

\* C16: when a step of an action fails, the user is told and the step is
\* not run again: a rejected request of the Fridge leaves a message on
\* screen and is gone from the requests in flight, with nothing sent in its
\* place; a rejected insert of a scan leaves the scan's error set.
C16_FailuresAreShownNotRetried ==
    [][\A r \in InFlight :
        /\ FridgeRequestFails(r) =>
            /\ alertMsg' # ""
            /\ net' = Settled(r)
        /\ HandleScanInsertDone(r, TRUE) =>
            /\ scanError' # ""
            /\ net' = Settled(r)]_vars

(***************************************************************************)
(* Claims: what is sent to the model proxy.                                *)
(***************************************************************************)
\* The text that join(', ') makes of the names is empty: there is no name,
\* or one name that is null.
IsEmptyIngredientList(names) ==
    \/ Len(names) = 0
    \/ Len(names) = 1 /\ IsNull(names[1])

\* C17: no request with empty ingredient text is sent to the model proxy:
\* neither a scan's OCR text nor a generation's ingredient list is empty
\* while its call is in flight.
C17_NoEmptyIngredientText ==
    /\ ~IsNull(scanCall) => ~IsBlank(Val(scanCall))
    /\ ~IsNull(recipeCall) => ~IsEmptyIngredientList(Val(recipeCall))

\* A generation is in flight with an empty ingredient list.
C17_Witness ==
    /\ recipeLoading
    /\ recipeCall = Some(<<>>)
    /\ fridgeItems = <<>>

\* C18: the ingredient list sent by a generation is the item names of the
\* store as it is when Generate is clicked, by ascending expiry.  It is stated
\* for a RecipeList that has loaded its rows, the case most in its favour.
C18_IngredientsAreTheCurrentInventory ==
    [][(HandleGenerateRecipes /\ fridgeItems # <<>>) =>
        recipeCall' = Some(IngredientList(SelectNames(store)))]_vars

\* A generation in flight carries Kale alone while the store holds Kale and
\* a second row, and nothing is in flight to the store.
C18_Witness ==
    /\ recipeLoading
    /\ recipeCall = Some(<<Some("Kale")>>)
    /\ Len(store) = 2
    /\ net = EmptyBag

(***************************************************************************)
(* Claims: the loading flags.                                              *)
(***************************************************************************)
\* A scan is under way: handleScan has started and has not run its finally.
ScanUnderWay == scanPc # "idle"

\* A generation is under way: its call to the proxy has not settled.
GenerationUnderWay == ~IsNull(recipeCall)

\* The flags are true exactly while the action is under way, and the Scan
\* button (with an image chosen) and the Generate button can be clicked
\* exactly while their flag is false.
LoadingGuardsTheControls ==
    /\ scanLoading <=> ScanUnderWay
    /\ recipeLoading <=> GenerationUnderWay
    /\ (Running /\ page = "scan" /\ image) => ((ENABLED HandleScan) <=> ~scanLoading)
    /\ (Running /\ page = "dashboard") =>
           ((ENABLED HandleGenerateRecipes) <=> ~recipeLoading)

=============================================================================
